---- MODULE Spec2Model ----
(***************************************************************************)
(* The shared voting state of src/app.py (class GlobalState and the page   *)
(* script that uses it), as a state machine.  Every browser session runs   *)
(* the page script in a thread of its own against the one cached           *)
(* GlobalState; a step of the model is one access of a session to the      *)
(* shared state (the votes dict, the voters list, the lock, the images     *)
(* directory).                                                             *)
(***************************************************************************)
EXTENDS Integers, Sequences, FiniteSets, TLC

\* ------------------------------------------------------------------ bounds
NSessions == 2      \* concurrent page sessions (threads running the script)
MaxRuns == 3        \* script runs started by a click, over all sessions
NStems == 1         \* distinct stems of uploaded file names ("a", "b", ...)
MaxUpload == 2      \* files selected in the uploader for one publish click

\* ------------------------------------------------------- program constants
max_width == 800

Sessions == 1 .. NSessions
Free == 0

\* Names typed into the name field; NoName is the empty text input.
NoName == ""
VoterNames == {"Alex", "Bo"}

\* A file name "<stem><_new ...>.jpg": stem, the number of "_new" suffixes
\* that follow it, and the extension.  The uploader accepts png, jpg and jpeg.
FileName(stem, new) == [stem |-> stem, new |-> new, ext |-> ".jpg"]
valid_extensions == {".png", ".jpg", ".jpeg", ".bmp"}
UploadNames == {FileName(b, 0) : b \in 1 .. NStems}
\* Names a stored file can have: the uploaded name, or that name renamed.
Ids == {FileName(b, k) : b \in 1 .. NStems, k \in 0 .. 1}

\* Uploaded bytes: a picture of some size, or bytes PIL cannot decode.
Garbage == [width |-> 0, height |-> 0]
Pictures == {[width |-> 640, height |-> 480], [width |-> 1600, height |-> 1000]}
Uploads == [name : UploadNames, data : Pictures \cup {Garbage}]
Decodable(data) == data # Garbage

EmptyMap == [x \in {} |-> 0]

VARIABLES
    files,            \* the images directory: file name -> stored picture
    votes,            \* GlobalState.votes: file name -> count
    voters,           \* GlobalState.voters: list of names
    voting_open,      \* GlobalState.voting_open
    lock,             \* GlobalState.lock: Free, or the session holding it
    pc,               \* where each session's script run is
    run,              \* the widgets and locals of each session's script run
    msg,              \* what each session's last run answered its user
    runs,             \* script runs started so far
    hadReset,         \* history: a reset has cleared the ledger
    called,           \* history: the cast_vote calls made before any reset
    cast              \* history: the ballots cast_vote has recorded since
                      \* the ledger was last cleared

shared == <<files, votes, voters, voting_open, lock>>
history == <<hadReset, called, cast>>
vars == <<shared, pc, run, msg, runs, history>>

\* ----------------------------------------------------------------- helpers
Range(seq) == {seq[k] : k \in DOMAIN seq}

\* Python's string order on file names: '.' sorts before '_', so a name sorts
\* before the same name with one more "_new".
NameLess(x, y) == x.stem < y.stem \/ (x.stem = y.stem /\ x.new < y.new)

RECURSIVE SortedSeq(_)
SortedSeq(S) ==
    IF S = {} THEN <<>>
    ELSE LET m == CHOOSE x \in S : \A y \in S \ {x} : NameLess(x, y)
         IN <<m>> \o SortedSeq(S \ {m})

RECURSIVE SumOver(_, _)
SumOver(f, S) ==
    IF S = {} THEN 0
    ELSE LET x == CHOOSE y \in S : TRUE
         IN f[x] + SumOver(f, S \ {x})

\* sum(state.votes.values())
SumVotes == SumOver(votes, DOMAIN votes)

\* GlobalState.get_all_images: the directory's files with a valid extension,
\* sorted.
get_all_images == SortedSeq({f \in DOMAIN files : f.ext \in valid_extensions})

\* state.votes.get(file_name, 0)
Tally(id) == IF id \in DOMAIN votes THEN votes[id] ELSE 0

\* os.path.splitext and f"{base}_new{ext}"
NewName(name) == [name EXCEPT !.new = @ + 1]

\* The downscaling of a picture wider than max_width (int() truncates).
Resize(data) ==
    IF data.width > max_width
    THEN [width |-> max_width, height |-> (data.height * max_width) \div data.width]
    ELSE data

\* Leaving a "with lock:" block releases the lock the session took.
Unlock(s) == IF lock = s THEN Free ELSE lock

\* The locals of a session that runs no script.
NoRun ==
    [current_images |-> <<>>,   \* the run's snapshot of the directory (line 91)
     button |-> "none",         \* the button the run was started by
     uploaded_files |-> <<>>,   \* the uploader's files
     i |-> 1,                   \* index of the loop the run is in
     success_count |-> 0,
     image |-> Garbage,         \* save_uploaded_image: the decoded picture
     save_path |-> FileName(0, 0),
     voter_name |-> NoName,
     selected_imgs |-> <<>>,
     tmp |-> 0,                 \* the count read by votes[name] += 1
     total_votes |-> -1,        \* statistics panel: sum of counts
     participants |-> -1]       \* statistics panel: number of voters

\* A click starts a run of the script: state.get_all_images() is called at
\* line 91, before any handler.
StartRun(s, b, ups, name, sel, at) ==
    /\ pc[s] = "idle"
    /\ runs < MaxRuns
    /\ runs' = runs + 1
    /\ run' = [run EXCEPT ![s] = [NoRun EXCEPT !.current_images = get_all_images,
                                               !.button = b,
                                               !.uploaded_files = ups,
                                               !.voter_name = name,
                                               !.selected_imgs = sel]]
    /\ msg' = [msg EXCEPT ![s] = "none"]
    /\ pc' = [pc EXCEPT ![s] = at]

\* The run ends (or calls st.rerun()): its locals are gone, its answer stays
\* on the page.
EndRun(s, answer) ==
    /\ pc' = [pc EXCEPT ![s] = "idle"]
    /\ run' = [run EXCEPT ![s] = NoRun]
    /\ msg' = [msg EXCEPT ![s] = answer]

Goto(s, at) == pc' = [pc EXCEPT ![s] = at]

Init ==
    /\ files = EmptyMap
    /\ votes = EmptyMap
    /\ voters = <<>>
    /\ voting_open = TRUE
    /\ lock = Free
    /\ pc = [s \in Sessions |-> "idle"]
    /\ run = [s \in Sessions |-> NoRun]
    /\ msg = [s \in Sessions |-> "none"]
    /\ runs = 0
    /\ hadReset = FALSE
    /\ called = <<>>
    /\ cast = <<>>

\* ------------------------------------------------- participant: the ballot
\* A participant's run started by the form's submit button, with a name typed
\* and images of the grid ticked.  With no image in the snapshot the script
\* stops before it draws the form (line 157).
SubmitBallot(s, name, sel) ==
    /\ get_all_images # <<>>
    /\ Range(sel) \subseteq Range(get_all_images)
    /\ StartRun(s, "submit", <<>>, name, sel, "submitted")
    /\ UNCHANGED <<shared, history>>

\* Mutant: the handler looks at the selection before it looks at the name.
Validate_SelectionFirst(name, sel) ==
    IF sel = <<>> THEN "no selection"
    ELSE IF name = NoName THEN "missing name"
    ELSE "call"

\* Mutant: the handler lets an empty selection through to cast_vote.
Validate_NoSelectionCheck(name, sel) ==
    IF name = NoName THEN "missing name" ELSE "call"

\* The submit handler's own checks (lines 200-207) before it calls cast_vote.
Validate(name, sel) ==
    IF name = NoName THEN "missing name"
    ELSE IF sel = <<>> THEN "no selection"
    ELSE "call"

\* The submit handler, lines 200-207.
HandleSubmit(s) ==
    /\ pc[s] = "submitted"
    /\ LET v == Validate(run[s].voter_name, run[s].selected_imgs)
       IN IF v = "call"
          THEN /\ Goto(s, "cast_lock")
               /\ called' = IF hadReset THEN called
                            ELSE Append(called, [name |-> run[s].voter_name,
                                                 sel |-> run[s].selected_imgs])
               /\ UNCHANGED <<run, msg>>
          ELSE /\ EndRun(s, v)
               /\ UNCHANGED called
    /\ UNCHANGED <<shared, runs, hadReset, cast>>

\* Mutant: cast_vote without "with self.lock".
CastLock_NoLock(s) ==
    /\ pc[s] = "cast_lock"
    /\ Goto(s, "cast_check")
    /\ UNCHANGED <<shared, run, msg, runs, history>>

\* cast_vote, line 75: "with self.lock" waits for the lock and takes it.
CastLock(s) ==
    /\ pc[s] = "cast_lock"
    /\ lock = Free
    /\ lock' = s
    /\ Goto(s, "cast_check")
    /\ UNCHANGED <<files, votes, voters, voting_open, run, msg, runs, history>>

\* Mutant: cast_vote without the look into self.voters.
CastCheck_NoRosterCheck(s) ==
    /\ pc[s] = "cast_check"
    /\ Goto(s, IF run[s].selected_imgs = <<>> THEN "cast_append" ELSE "cast_read")
    /\ UNCHANGED <<shared, run, msg, runs, history>>

\* Mutant: the duplicate branch returns with the lock still held.
CastCheck_KeepsLock(s) ==
    /\ pc[s] = "cast_check"
    /\ IF run[s].voter_name \in Range(voters)
       THEN /\ EndRun(s, "duplicate")
            /\ UNCHANGED lock
       ELSE /\ Goto(s, IF run[s].selected_imgs = <<>> THEN "cast_append"
                       ELSE "cast_read")
            /\ UNCHANGED <<lock, run, msg>>
    /\ UNCHANGED <<files, votes, voters, voting_open, runs, history>>

\* cast_vote, lines 76-77: a name already in the list is turned away.
CastCheck(s) ==
    /\ pc[s] = "cast_check"
    /\ IF run[s].voter_name \in Range(voters)
       THEN /\ lock' = Unlock(s)
            /\ EndRun(s, "duplicate")
       ELSE /\ Goto(s, IF run[s].selected_imgs = <<>> THEN "cast_append"
                       ELSE "cast_read")
            /\ UNCHANGED <<lock, run, msg>>
    /\ UNCHANGED <<files, votes, voters, voting_open, runs, history>>

\* cast_vote, lines 80-82: the absent entry is created, and votes[name] += 1
\* reads the count ...
CastRead(s) ==
    /\ pc[s] = "cast_read"
    /\ LET name == run[s].selected_imgs[run[s].i]
           ensured == IF name \in DOMAIN votes THEN votes ELSE (name :> 0) @@ votes
       IN /\ votes' = ensured
          /\ run' = [run EXCEPT ![s].tmp = ensured[name]]
    /\ Goto(s, "cast_write")
    /\ UNCHANGED <<files, voters, voting_open, lock, msg, runs, history>>

\* Mutant: "self.votes[name] = 1" in place of "+= 1".
CastWrite_StoresOne(s) ==
    /\ pc[s] = "cast_write"
    /\ votes' = (run[s].selected_imgs[run[s].i] :> 1) @@ votes
    /\ run' = [run EXCEPT ![s].i = @ + 1, ![s].tmp = 0]
    /\ Goto(s, IF run[s].i < Len(run[s].selected_imgs) THEN "cast_read"
               ELSE "cast_append")
    /\ UNCHANGED <<files, voters, voting_open, lock, msg, runs, history>>

\* ... and stores the count plus one; the loop goes on to the next image.
CastWrite(s) ==
    /\ pc[s] = "cast_write"
    /\ LET name == run[s].selected_imgs[run[s].i]
       IN votes' = (name :> run[s].tmp + 1) @@ votes
    /\ run' = [run EXCEPT ![s].i = @ + 1, ![s].tmp = 0]
    /\ Goto(s, IF run[s].i < Len(run[s].selected_imgs) THEN "cast_read"
               ELSE "cast_append")
    /\ UNCHANGED <<files, voters, voting_open, lock, msg, runs, history>>

\* cast_vote, lines 84-85: the voter is recorded, the lock released, and the
\* page answers and reruns.
CastAppend(s) ==
    /\ pc[s] = "cast_append"
    /\ voters' = Append(voters, run[s].voter_name)
    /\ lock' = Unlock(s)
    /\ EndRun(s, "success")
    /\ cast' = Append(cast, [name |-> run[s].voter_name,
                             sel |-> run[s].selected_imgs])
    /\ UNCHANGED <<files, votes, voting_open, runs, hadReset, called>>

\* ------------------------------------------------------ organizer: publish
\* An organizer's run started by the publish button with files in the
\* uploader (lines 110-113).
ClickPublish(s, ups) ==
    /\ StartRun(s, "publish", ups, NoName, <<>>, "save_open")
    /\ UNCHANGED <<shared, history>>

\* The publish loop after the file at index i (lines 113-119): the next file,
\* or past the loop, where a positive count reruns the script and a zero count
\* lets it go on to the statistics panel.
AfterFile(s, count) ==
    IF run[s].i < Len(run[s].uploaded_files)
    THEN /\ Goto(s, "save_open")
         /\ run' = [run EXCEPT ![s].i = @ + 1, ![s].success_count = count,
                               ![s].image = Garbage,
                               ![s].save_path = FileName(0, 0)]
         /\ UNCHANGED msg
    ELSE IF count > 0
    THEN EndRun(s, "published")
    ELSE /\ Goto(s, "stats_total")
         /\ run' = [run EXCEPT ![s].i = 1]
         /\ UNCHANGED msg

\* Mutant: the handler counts a file whatever save_uploaded_image returns.
SaveOpen_CountsFailure(s) ==
    /\ pc[s] = "save_open"
    /\ LET f == run[s].uploaded_files[run[s].i]
       IN IF Decodable(f.data)
          THEN /\ run' = [run EXCEPT ![s].image = Resize(f.data),
                                     ![s].save_path =
                                         IF f.name \in DOMAIN files
                                         THEN NewName(f.name) ELSE f.name]
               /\ Goto(s, "save_write")
               /\ UNCHANGED msg
          ELSE AfterFile(s, run[s].success_count + 1)
    /\ UNCHANGED <<shared, runs, history>>

\* save_uploaded_image, lines 43-58: the bytes are decoded (an exception makes
\* the call return False), the picture is downscaled, and the path is chosen
\* by looking whether the uploaded name exists in the directory.
SaveOpen(s) ==
    /\ pc[s] = "save_open"
    /\ LET f == run[s].uploaded_files[run[s].i]
       IN IF Decodable(f.data)
          THEN /\ run' = [run EXCEPT ![s].image = Resize(f.data),
                                     ![s].save_path =
                                         IF f.name \in DOMAIN files
                                         THEN NewName(f.name) ELSE f.name]
               /\ Goto(s, "save_write")
               /\ UNCHANGED msg
          ELSE AfterFile(s, run[s].success_count)
    /\ UNCHANGED <<shared, runs, history>>

\* save_uploaded_image, line 61: image.save writes the file at save_path.
SaveWrite(s) ==
    /\ pc[s] = "save_write"
    /\ files' = (run[s].save_path :> run[s].image) @@ files
    /\ Goto(s, "save_lock")
    /\ UNCHANGED <<votes, voters, voting_open, lock, run, msg, runs, history>>

\* save_uploaded_image, line 65: the lock is taken.
SaveLock(s) ==
    /\ pc[s] = "save_lock"
    /\ lock = Free
    /\ lock' = s
    /\ Goto(s, "save_init")
    /\ UNCHANGED <<files, votes, voters, voting_open, run, msg, runs, history>>

\* Mutant: "self.votes[file_name] = 0" without the look into self.votes.
SaveInit_AlwaysZero(s) ==
    /\ pc[s] = "save_init"
    /\ votes' = (run[s].save_path :> 0) @@ votes
    /\ lock' = Unlock(s)
    /\ AfterFile(s, run[s].success_count + 1)
    /\ UNCHANGED <<files, voters, voting_open, runs, history>>

\* save_uploaded_image, lines 66-68: the stored name gets a zero count unless
\* it has a count, the lock is released and the call returns True; the
\* handler counts the success.
SaveInit(s) ==
    /\ pc[s] = "save_init"
    /\ votes' = IF run[s].save_path \in DOMAIN votes THEN votes
                ELSE (run[s].save_path :> 0) @@ votes
    /\ lock' = Unlock(s)
    /\ AfterFile(s, run[s].success_count + 1)
    /\ UNCHANGED <<files, voters, voting_open, runs, history>>

\* --------------------------------------------- organizer: statistics, reset
\* An organizer's run with no button pressed (or the export button, which only
\* reads): the script draws the statistics panel and the grid.
OpenAdminPage(s) ==
    /\ StartRun(s, "none", <<>>, NoName, <<>>, "stats_total")
    /\ UNCHANGED <<shared, history>>

\* An organizer's run started by the reset button (line 141): the script
\* draws the statistics panel on its way to the button's handler.
ClickReset(s) ==
    /\ StartRun(s, "reset", <<>>, NoName, <<>>, "stats_total")
    /\ UNCHANGED <<shared, history>>

\* Statistics panel, line 123: the counts are summed, without the lock.
StatsTotal(s) ==
    /\ pc[s] = "stats_total"
    /\ run' = [run EXCEPT ![s].total_votes = SumVotes]
    /\ Goto(s, "stats_voters")
    /\ UNCHANGED <<shared, msg, runs, history>>

\* Statistics panel, line 126: the voters are counted, without the lock; the
\* run then reaches the reset button's handler, or draws the grid and ends.
StatsVoters(s) ==
    /\ pc[s] = "stats_voters"
    /\ IF run[s].button = "reset"
       THEN /\ run' = [run EXCEPT ![s].participants = Len(voters)]
            /\ Goto(s, "reset_lock")
            /\ UNCHANGED msg
       ELSE EndRun(s, "shown")
    /\ UNCHANGED <<shared, runs, history>>

\* Mutant: the reset handler without "with state.lock".
ResetLock_NoLock(s) ==
    /\ pc[s] = "reset_lock"
    /\ Goto(s, "reset_votes")
    /\ UNCHANGED <<shared, run, msg, runs, history>>

\* Reset handler, line 142: the lock is taken.
ResetLock(s) ==
    /\ pc[s] = "reset_lock"
    /\ lock = Free
    /\ lock' = s
    /\ Goto(s, "reset_votes")
    /\ UNCHANGED <<files, votes, voters, voting_open, run, msg, runs, history>>

\* Mutant: a reset that also closes the voting.
ResetVotes_ClosesGate(s) ==
    /\ pc[s] = "reset_votes"
    /\ votes' = EmptyMap
    /\ voting_open' = FALSE
    /\ hadReset' = TRUE
    /\ called' = <<>>
    /\ cast' = <<>>
    /\ Goto(s, "reset_voters")
    /\ UNCHANGED <<files, voters, lock, run, msg, runs>>

\* Reset handler, line 143: state.votes = {}.
ResetVotes(s) ==
    /\ pc[s] = "reset_votes"
    /\ votes' = EmptyMap
    /\ hadReset' = TRUE
    /\ called' = <<>>
    /\ cast' = <<>>
    /\ Goto(s, "reset_voters")
    /\ UNCHANGED <<files, voters, voting_open, lock, run, msg, runs>>

\* Mutant: the reset handler without "state.voters = []".
ResetVoters_Keeps(s) ==
    /\ pc[s] = "reset_voters"
    /\ Goto(s, IF run[s].current_images = <<>> THEN "reset_unlock" ELSE "reset_init")
    /\ UNCHANGED <<shared, run, msg, runs, history>>

\* Reset handler, line 144: state.voters = [].
ResetVoters(s) ==
    /\ pc[s] = "reset_voters"
    /\ voters' = <<>>
    /\ Goto(s, IF run[s].current_images = <<>> THEN "reset_unlock" ELSE "reset_init")
    /\ UNCHANGED <<files, votes, voting_open, lock, run, msg, runs, history>>

\* Reset handler, lines 146-148: each image of the run's snapshot gets a zero
\* count.
ResetInit(s) ==
    /\ pc[s] = "reset_init"
    /\ votes' = (run[s].current_images[run[s].i] :> 0) @@ votes
    /\ run' = [run EXCEPT ![s].i = @ + 1]
    /\ Goto(s, IF run[s].i < Len(run[s].current_images) THEN "reset_init"
               ELSE "reset_unlock")
    /\ UNCHANGED <<files, voters, voting_open, lock, msg, runs, history>>

\* Reset handler, lines 142 and 149: the with-block ends, the lock is
\* released and the script reruns.
ResetUnlock(s) ==
    /\ pc[s] = "reset_unlock"
    /\ lock' = Unlock(s)
    /\ EndRun(s, "reset")
    /\ UNCHANGED <<files, votes, voters, voting_open, runs, history>>

\* ------------------------------------------------------------ the program
\* What a participant can tick: any of the images the page shows, in the
\* order the grid draws them.
Selections == {SortedSeq(S) : S \in SUBSET Ids}

\* What the uploader can hold: one to MaxUpload files.
RECURSIVE SeqsUpTo(_, _)
SeqsUpTo(S, n) ==
    IF n = 0 THEN {<<>>}
    ELSE LET shorter == SeqsUpTo(S, n - 1)
         IN shorter \cup {Append(q, x) : q \in shorter, x \in S}
UploaderContents == SeqsUpTo(Uploads, MaxUpload) \ {<<>>}

Next ==
    \E s \in Sessions :
        \/ \E name \in VoterNames \cup {NoName}, sel \in Selections :
               SubmitBallot(s, name, sel)
        \/ HandleSubmit(s)
        \/ CastLock(s)
        \/ CastCheck(s)
        \/ CastRead(s)
        \/ CastWrite(s)
        \/ CastAppend(s)
        \/ \E ups \in UploaderContents : ClickPublish(s, ups)
        \/ SaveOpen(s)
        \/ SaveWrite(s)
        \/ SaveLock(s)
        \/ SaveInit(s)
        \/ OpenAdminPage(s)
        \/ ClickReset(s)
        \/ StatsTotal(s)
        \/ StatsVoters(s)
        \/ ResetLock(s)
        \/ ResetVotes(s)
        \/ ResetVoters(s)
        \/ ResetInit(s)
        \/ ResetUnlock(s)

Spec == Init /\ [][Next]_vars

\* The "with self.lock" lines 64, 75 and 143, where a thread waits for the
\* lock.
Acquire(s) == CastLock(s) \/ SaveLock(s) \/ ResetLock(s)

\* Every other step of a script run that has begun.
Proceed(s) ==
    \/ HandleSubmit(s)
    \/ CastCheck(s)
    \/ CastRead(s)
    \/ CastWrite(s)
    \/ CastAppend(s)
    \/ SaveOpen(s)
    \/ SaveWrite(s)
    \/ SaveInit(s)
    \/ StatsTotal(s)
    \/ StatsVoters(s)
    \/ ResetVotes(s)
    \/ ResetVoters(s)
    \/ ResetInit(s)
    \/ ResetUnlock(s)

\* Each script run is a thread of its own: a thread that can run does run,
\* and a thread waiting at "with self.lock" gets the lock if it is released
\* again and again.  Nothing obliges a user to click.
Fairness == \A s \in Sessions : WF_vars(Proceed(s)) /\ SF_vars(Acquire(s))

\* The state after a first run of the script by one session: the
\* administrator has opened the page, or has published one picture.
AfterFirstRun ==
    /\ \E ups \in {<<>>} \cup {<<u>> : u \in {x \in Uploads : Decodable(x.data)}} :
          /\ files = IF ups = <<>> THEN EmptyMap
                     ELSE (ups[1].name :> Resize(ups[1].data))
          /\ votes = IF ups = <<>> THEN EmptyMap ELSE (ups[1].name :> 0)
          /\ msg = [s \in Sessions |->
                       IF s # 1 THEN "none"
                       ELSE IF ups = <<>> THEN "shown" ELSE "published"]
    /\ voters = <<>>
    /\ voting_open = TRUE
    /\ lock = Free
    /\ pc = [s \in Sessions |-> "idle"]
    /\ run = [s \in Sessions |-> NoRun]
    /\ runs = 1
    /\ hadReset = FALSE
    /\ called = <<>>
    /\ cast = <<>>

\* The runs that follow a first one, under fair scheduling.
FairSpec == AfterFirstRun /\ [][Next]_vars /\ Fairness

\* ------------------------------------------------------------- properties
\* The positions of a session inside cast_vote, waiting for the lock or past it.
CastPcs == {"cast_lock", "cast_check", "cast_read", "cast_write", "cast_append"}
InCastPcs == CastPcs \ {"cast_lock"}
ResetPcs == {"reset_lock", "reset_votes", "reset_voters", "reset_init", "reset_unlock"}

\* The number of ballots of a history that hold an id, and the sizes of its
\* selections added up.
CountHolding(q, id) == Cardinality({k \in DOMAIN q : id \in Range(q[k].sel)})
RECURSIVE SumSizes(_)
SumSizes(q) == IF q = <<>> THEN 0 ELSE Len(Head(q).sel) + SumSizes(Tail(q))
DistinctNames(q) == \A a, b \in DOMAIN q : a # b => q[a].name # q[b].name

\* C1: no double voting.  A cast_vote call whose name is in the roster is
\* answered with the duplicate-vote failure and changes neither a count nor
\* the roster, and a call is only ever recorded for a name that is not in the
\* roster, so of the calls with one name only the first succeeds.
C1_NoDoubleVoting ==
    [][\A s \in Sessions :
          /\ (/\ pc[s] = "cast_check"
              /\ pc'[s] # "cast_check"
              /\ run[s].voter_name \in Range(voters))
             => /\ pc'[s] = "idle"
                /\ msg'[s] = "duplicate"
                /\ votes' = votes
                /\ voters' = voters
          /\ (pc[s] = "cast_append" /\ pc'[s] # "cast_append")
             => /\ run[s].voter_name \notin Range(voters)
                /\ msg'[s] = "success"]_vars

\* C1 witness: a second call with a recorded name has been turned away.
C1_Witness ==
    \E s \in Sessions : msg[s] = "duplicate" /\ pc[s] = "idle" /\ voters # <<>>

\* C2: tally conservation.  While no reset has happened and no cast_vote call
\* is under way, the tally of every id is the number of successful cast_vote
\* calls whose selection held the id.
C2_TallyConservation ==
    (~hadReset /\ \A s \in Sessions : pc[s] \notin InCastPcs)
        => \A id \in Ids \cup DOMAIN votes : Tally(id) = CountHolding(cast, id)

\* C2 witness: two successful calls held the same id.
C2_Witness ==
    /\ ~hadReset
    /\ \A s \in Sessions : pc[s] \notin InCastPcs
    /\ \E id \in Ids : CountHolding(cast, id) = 2 /\ Tally(id) = 2

\* C3: atomicity under concurrency.  Once the cast_vote calls of sessions
\* with pairwise distinct names have all returned (and no reset happened),
\* the roster holds as many names as there were calls and the counts add up
\* to the sizes of the calls' selections, whatever the interleaving.
C3_NoLostUpdate ==
    (/\ ~hadReset
     /\ \A s \in Sessions : pc[s] \notin CastPcs
     /\ DistinctNames(called))
        => /\ Len(voters) = Len(called)
           /\ SumVotes = SumSizes(called)

\* C3 witness: two calls with distinct names and overlapping selections have
\* returned.
C3_Witness ==
    /\ ~hadReset
    /\ \A s \in Sessions : pc[s] \notin CastPcs
    /\ Len(called) = 2
    /\ DistinctNames(called)
    /\ Range(called[1].sel) \cap Range(called[2].sel) # {}
    /\ Len(called[1].sel) + Len(called[2].sel) >= 3

\* C4: voter and ledger are consistent whenever the lock is free.  The roster
\* is exactly the names of the ballots counted since the ledger was last
\* cleared, and every count is the number of those ballots that hold the id.
C4_VoterLedgerConsistency ==
    lock = Free
        => /\ voters = [k \in DOMAIN cast |-> cast[k].name]
           /\ \A id \in Ids \cup DOMAIN votes : Tally(id) = CountHolding(cast, id)
           /\ SumVotes = SumSizes(cast)

\* C4 witness: a ballot is in the roster and the ledger after a reset ran.
C4_Witness ==
    /\ lock = Free
    /\ hadReset
    /\ voters # <<>>
    /\ SumVotes > 0

\* C5: reset clears exactly.  No step of the reset handler changes the
\* directory, and when the handler has released the lock every image of the
\* directory has tally 0 and the roster is empty.
C5_ResetClearsExactly ==
    [][\A s \in Sessions :
          (pc[s] \in ResetPcs /\ pc'[s] # pc[s])
             => /\ files' = files
                /\ pc[s] = "reset_unlock"
                      => /\ voters' = <<>>
                         /\ \A id \in DOMAIN files' : id \notin DOMAIN votes' \/ votes'[id] = 0
                         /\ SumOver(votes', DOMAIN votes') = 0]_vars

\* C5 witness: a reset has completed after a ballot had been counted.
C5_Witness ==
    \E s, t \in Sessions :
        /\ msg[s] = "reset" /\ pc[s] = "idle"
        /\ msg[t] = "success"
        /\ voters = <<>>
        /\ DOMAIN files # {}

\* C6 as stated: the checks come in the order name, roster, selection, so a
\* submission with a name that is in the roster and with no image ticked is
\* answered with the duplicate-vote failure.
C6_OrderNameRosterSelection ==
    [][\A s \in Sessions :
          (/\ pc[s] = "submitted"
           /\ pc'[s] # "submitted"
           /\ run[s].voter_name \in Range(voters)
           /\ run[s].selected_imgs = <<>>)
             => msg'[s] = "duplicate"]_vars

\* C6 as amended: the checks come in the order name, selection, roster.  The
\* handler answers an empty name with the missing-name error, then an empty
\* selection with the no-selection error (also for a name that is in the
\* roster), and only then calls cast_vote, which looks into the roster.
C6_OrderNameSelectionRoster ==
    [][\A s \in Sessions :
          /\ (pc[s] = "submitted" /\ pc'[s] # "submitted")
             => /\ run[s].voter_name = NoName
                   => pc'[s] = "idle" /\ msg'[s] = "missing name"
                /\ (run[s].voter_name # NoName /\ run[s].selected_imgs = <<>>)
                   => pc'[s] = "idle" /\ msg'[s] = "no selection"
                /\ (run[s].voter_name # NoName /\ run[s].selected_imgs # <<>>)
                   => pc'[s] = "cast_lock"
          /\ (pc[s] = "cast_check" /\ pc'[s] # "cast_check")
             => (msg'[s] = "duplicate" <=> run[s].voter_name \in Range(voters))]_vars

\* C6 witness: a name that is in the roster has been submitted with no image
\* ticked.
C6_Witness ==
    \E s \in Sessions :
        /\ pc[s] = "submitted"
        /\ run[s].voter_name \in Range(voters)
        /\ run[s].selected_imgs = <<>>

\* C7: invalid ballots have no effect.  A submission with an empty name or an
\* empty selection is answered with a validation error and changes neither a
\* count nor the roster; and a name enters the roster only when the call has
\* incremented the count of each of its selected images, of which there is at
\* least one.
C7_InvalidBallotNoEffect ==
    [][\A s \in Sessions :
          /\ (/\ pc[s] = "submitted"
              /\ pc'[s] # "submitted"
              /\ (run[s].voter_name = NoName \/ run[s].selected_imgs = <<>>))
             => /\ msg'[s] \in {"missing name", "no selection"}
                /\ pc'[s] = "idle"
                /\ votes' = votes
                /\ voters' = voters
          /\ (pc[s] = "cast_append" /\ pc'[s] # "cast_append")
             => /\ run[s].voter_name # NoName
                /\ run[s].selected_imgs # <<>>
                /\ run[s].i = Len(run[s].selected_imgs) + 1
                /\ \A id \in Range(run[s].selected_imgs) : Tally(id) >= 1]_vars

\* C7 witness: a submission has been turned away with a validation error
\* while a ballot is recorded and counted.
C7_Witness ==
    \E s \in Sessions :
        /\ pc[s] = "idle"
        /\ msg[s] \in {"missing name", "no selection"}
        /\ voters # <<>>
        /\ SumVotes = SumSizes(cast)
        /\ SumVotes > 0

\* C8 as stated: every image of the directory has a ledger entry.
C8_LedgerTotality ==
    \A f \in Range(get_all_images) : f \in DOMAIN votes

\* C9 as stated: no step overwrites or removes a stored file, and a file is
\* only ever written under a name that was not in the directory.
C9_AppendNeverOverwrites ==
    [][/\ \A f \in DOMAIN files : f \in DOMAIN files' /\ files'[f] = files[f]
       /\ \A s \in Sessions :
             (pc[s] = "save_write" /\ pc'[s] # "save_write")
                => run[s].save_path \notin DOMAIN files]_vars

\* A ballot is half applied: counts have been incremented for a voter who is
\* not in the roster yet.
HalfApplied ==
    \E w \in Sessions :
        /\ lock = w
        /\ pc[w] \in {"cast_read", "cast_write", "cast_append"}
        /\ SumVotes # SumSizes(cast)

\* C10 as stated: the statistics panel, which reads the counts and then the
\* roster, never makes one of its reads while a writer has a ballot half
\* applied.
C10_ReaderNeverSeesHalfBallot ==
    [][\A r \in Sessions :
          (pc[r] \in {"stats_total", "stats_voters"} /\ pc'[r] # pc[r])
             => ~HalfApplied]_vars

SavePcs == {"save_open", "save_write", "save_lock", "save_init"}

\* A step of the reset handler.
ResetStep == \E s \in Sessions : pc[s] \in ResetPcs /\ pc'[s] # pc[s]

\* C12: counts are monotonic between resets.  In every step that is not a
\* step of the reset handler every ledger entry stays and its count does not
\* decrease, and every count is a natural number in every state.
C12_CountsMonotonic ==
    /\ [][~ResetStep
             => \A id \in DOMAIN votes :
                   id \in DOMAIN votes' /\ votes'[id] >= votes[id]]_vars
    /\ [](\A id \in DOMAIN votes : votes[id] \in Nat)

\* C12 witness: a count has grown to 2 with no reset.
C12_Witness ==
    /\ ~hadReset
    /\ \E id \in DOMAIN votes : votes[id] = 2
    /\ \A s \in Sessions : pc[s] \notin ResetPcs

\* Session s takes a step.
StepOf(s) == pc'[s] # pc[s] \/ run'[s] # run[s]

\* The files of a publish run that come before index n and can be decoded.
StoredBefore(s, n) ==
    {k \in 1 .. (n - 1) : Decodable(run[s].uploaded_files[k].data)}

\* C13: publish per-item isolation.  A file that cannot be decoded changes
\* neither the directory, the ledger nor the roster, and the loop goes on
\* with the files after it; and all through the loop success_count is the
\* number of files handled so far that were stored and given a ledger
\* entry, which a stored file has when its call returns.
C13_PerItemIsolation ==
    /\ [](\A s \in Sessions :
             pc[s] \in SavePcs
                => run[s].success_count = Cardinality(StoredBefore(s, run[s].i)))
    /\ [][\A s \in Sessions :
             /\ (/\ pc[s] = "save_open"
                 /\ StepOf(s)
                 /\ ~Decodable(run[s].uploaded_files[run[s].i].data))
                => /\ files' = files /\ votes' = votes /\ voters' = voters
                   /\ run[s].i < Len(run[s].uploaded_files)
                         => /\ pc'[s] = "save_open"
                            /\ run'[s].i = run[s].i + 1
                            /\ run'[s].success_count = run[s].success_count
             /\ (pc[s] = "save_init" /\ StepOf(s))
                => /\ run[s].save_path \in DOMAIN files
                   /\ run[s].save_path \in DOMAIN votes'
                   /\ pc'[s] = "idle" => msg'[s] = "published"]_vars

\* C13 witness: the first file of a publish could not be decoded and the
\* second is stored and about to get its ledger entry.
C13_Witness ==
    \E s \in Sessions :
        /\ pc[s] = "save_init"
        /\ run[s].i = 2
        /\ ~Decodable(run[s].uploaded_files[1].data)
        /\ run[s].success_count = 0
        /\ run[s].save_path \in DOMAIN files

\* The positions at which a session holds the lock.
LockedPcs ==
    {"cast_check", "cast_read", "cast_write", "cast_append", "save_init",
     "reset_votes", "reset_voters", "reset_init", "reset_unlock"}

\* C14: no operation blocks indefinitely.  The lock is held only by a session
\* inside one of the three "with self.lock" blocks, so every way out of
\* cast_vote (success and duplicate), of the ledger initialisation of publish
\* and of reset has released it; whenever some run is under way some step of
\* some run can be taken; and under fair scheduling every run that has begun
\* comes to its end.
C14_NoBlocking ==
    /\ [](\A s \in Sessions : lock = s <=> pc[s] \in LockedPcs)
    /\ []((\E s \in Sessions : pc[s] # "idle")
             => \E t \in Sessions : ENABLED (Proceed(t) \/ Acquire(t)))
    /\ \A s \in Sessions : (pc[s] # "idle") ~> (pc[s] = "idle")

\* C14 witness: a session waits for the lock that the other session holds.
C14_Witness ==
    \E s, t \in Sessions :
        /\ pc[s] \in {"cast_lock", "save_lock", "reset_lock"}
        /\ lock = t
        /\ t # s

\* C16: voter roster uniqueness.  No name is at two places of the list, under
\* every interleaving of cast_vote and reset.
C16_RosterUnique ==
    \A i, j \in 1 .. Len(voters) : i # j => voters[i] # voters[j]

\* C16 witness: every name is in the list, so each further ballot is a
\* duplicate.
C16_Witness == Len(voters) = Cardinality(VoterNames)

\* C17 as stated: when a call of save_uploaded_image that stored a file
\* returns, the stored name has a ledger entry, and a name this call
\* introduced (it found no file of that name, so it kept the uploaded name)
\* has count 0.
C17_FreshIdsStartAtZero ==
    [][\A s \in Sessions :
          (pc[s] = "save_init" /\ StepOf(s))
             => /\ run[s].save_path \in DOMAIN votes'
                /\ run[s].save_path = run[s].uploaded_files[run[s].i].name
                      => votes'[run[s].save_path] = 0]_vars

\* C18: publish frame condition.  No step of save_uploaded_image, whether the
\* call succeeds or fails, changes the roster, the gate flag or the count of
\* an entry the ledger already has; the only entry it can add is the stored
\* name, with count 0.
C18_PublishFrame ==
    [][\A s \in Sessions :
          (pc[s] \in SavePcs /\ StepOf(s))
             => /\ voters' = voters
                /\ voting_open' = voting_open
                /\ \A id \in DOMAIN votes :
                      id \in DOMAIN votes' /\ votes'[id] = votes[id]
                /\ \A id \in DOMAIN votes' \ DOMAIN votes :
                      id = run[s].save_path /\ votes'[id] = 0]_vars

\* C18 witness: a stored file is about to get its ledger entry while the
\* ledger holds a vote and the roster a voter.
C18_Witness ==
    \E s \in Sessions :
        /\ pc[s] = "save_init"
        /\ voters # <<>>
        /\ \E id \in DOMAIN votes : votes[id] > 0

\* C19: the gate is constant.  voting_open is True in every state, so no
\* operation, reset included, changes it.
C19_GateConstant == voting_open = TRUE

\* C19 witness: a reset has run to its end and a ballot was recorded after it.
C19_Witness ==
    /\ hadReset
    /\ voters # <<>>
    /\ lock = Free
    /\ \E s \in Sessions : msg[s] = "reset"
====
